---- MODULE Spec2Model ----
(***************************************************************************)
(* whoop-copilot: the OAuth token lifecycle (oauth_whoop.py), the WHOOP    *)
(* API client's token handling (whoop_api.py) and the join/aggregation     *)
(* functions of the analyzer (analyzer.py).                                *)
(*                                                                         *)
(* Time is the value of int(time.time()); the model observes the clock at  *)
(* a granularity of one safety margin (60 s).  Python's None is modelled   *)
(* as 0: every use of an optional value in the modelled code is a          *)
(* truthiness test or an (in)equality with a non-empty value, and all      *)
(* states, codes and timestamps of the model are positive.  An access      *)
(* token is the pair <<serial number, expiry time>>: the token endpoint    *)
(* knows when each token it issued expires.                                *)
(***************************************************************************)
EXTENDS Integers, Sequences, FiniteSets, TLC

\* ------------------------------------------------------------------ bounds
MaxTime == 420          \* the clock stops advancing here
MaxTokens == 3          \* access tokens the token endpoint issues in one run
MaxAuths == 2           \* interactive authorizations started in one run
MaxRecords == 2         \* records in one fetched collection

\* --------------------------------------------------------- program constants
None == 0
SafetyMargin == 60
timeout_seconds == 180
MaxScore == 100

ClockSteps == {60}              \* what the clock advances by between two observations
ExpiresInChoices == {60, 180}   \* expires_in values the token endpoint returns
ForgedState == MaxAuths + 1     \* a state value no invocation ever generated

VARIABLES
    now,             \* int(time.time())
    creds,           \* WHOOP_CLIENT_ID and WHOOP_CLIENT_SECRET are both set
    tokens_file,     \* read_tokens().get("whoop"), a missing key read as None
    srv_issued,      \* number of access tokens the token endpoint has issued
    access_token,    \* WhoopAPI.access_token of the client instance
    rejected,        \* the access token the running call's pre-flight saw answered 401
    op,              \* the operation the main thread is executing
    pc,              \* where the main thread is inside it
    site,            \* the call site of the running get_valid_token
    code,            \* _CallbackHandler.code
    state_expected,  \* _CallbackHandler.state_expected
    httpd,           \* the listener and its one-request thread
    stale,           \* the requests that threads of ended invocations have
                     \*   accepted and whose code they still have to write
    deadline,        \* _start_server_until_code: deadline
    sleeping,        \* the polling loop is in time.sleep(0.2)
    authn,           \* number of authorizations started (the state generated)
    req,             \* the request the listener of the running operation handled,
                     \*   and its answer
    events,          \* what the running operation has done so far, in order
    result,          \* outcome of the last finished operation
    score,           \* analyzer: one recovery score and
    category,        \*   the band it was put in
    whoop_workouts,  \* analyzer: the fetched workout records
    whoop_recovery,  \* analyzer: the fetched recovery records
    transactions,    \* analyzer: the fetched transaction records
    analyzed,        \* analyzer: the analysis function that was called
    analysis         \* analyzer: what it returned

oauth_vars == <<now, creds, tokens_file, srv_issued, access_token, rejected, op, pc, site,
                code, state_expected, httpd, stale, deadline, sleeping, authn, req,
                events, result>>
bucket_vars == <<score, category>>
analysis_vars == <<whoop_workouts, whoop_recovery, transactions, analyzed, analysis>>
vars == <<oauth_vars, bucket_vars, analysis_vars>>

\* ------------------------------------------------------------- token store
NoToken == <<None, None>>
NoTokens == [access_token |-> NoToken, refresh_token |-> None,
             expires_in |-> None, issued_at |-> None]

\* oauth_whoop.py:142, the expiry check of get_valid_token
TokenStillValidNoMargin(tokens, t) ==
    /\ tokens.access_token # NoToken
    /\ tokens.issued_at # None
    /\ tokens.expires_in # None
    /\ t < tokens.issued_at + tokens.expires_in

TokenStillValidWideMargin(tokens, t) ==
    /\ tokens.access_token # NoToken
    /\ tokens.issued_at # None
    /\ tokens.expires_in # None
    /\ t < tokens.issued_at + tokens.expires_in - 2 * SafetyMargin

TokenStillValid(tokens, t) ==
    /\ tokens.access_token # NoToken
    /\ tokens.issued_at # None
    /\ tokens.expires_in # None
    /\ t < tokens.issued_at + tokens.expires_in - SafetyMargin

\* the JSON bundles the token endpoint can answer a grant with at time t
TokenResponses(t) ==
    {[access_token |-> <<srv_issued + 1, t + e>>, refresh_token |-> r, expires_in |-> e] :
        r \in {None, srv_issued + 1}, e \in ExpiresInChoices}

\* the record written under the provider key: resp.json() plus issued_at
Bundle(resp, issued) ==
    [access_token |-> resp.access_token, refresh_token |-> resp.refresh_token,
     expires_in |-> resp.expires_in, issued_at |-> issued]

NoResult == [kind |-> "none", val |-> NoToken]
NoReq == [path |-> "none", state |-> None, code |-> None, status |-> None,
          late |-> FALSE]

\* ---------------------------------------------------- returning to the caller
\* get_valid_token returns tok to its call site: a direct call, or one of the
\* three assignments to self.access_token in whoop_api.py (lines 20, 37, 39)
GvtReturn(tok) ==
    /\ site' = "none"
    /\ IF site = "direct"
       THEN /\ pc' = "idle"
            /\ result' = [kind |-> "token", val |-> tok]
            /\ UNCHANGED access_token
       ELSE /\ access_token' = tok
            /\ pc' = IF site = "headers" THEN "preflight" ELSE "request"
            /\ UNCHANGED result

\* get_valid_token raises: inside the try of _refresh_token_if_needed the
\* except clause calls get_valid_token again; anywhere else the error ends the call
GvtRaiseSwallowed(err) ==
    /\ UNCHANGED access_token
    /\ site' = "none"
    /\ pc' = "idle"
    /\ result' = [kind |-> "token", val |-> NoToken]

GvtRaise(err) ==
    /\ UNCHANGED access_token
    /\ IF site \in {"headers", "on401"}
       THEN /\ pc' = "gvt"
            /\ site' = "except"
            /\ UNCHANGED result
       ELSE /\ pc' = "idle"
            /\ site' = "none"
            /\ result' = [kind |-> err, val |-> NoToken]

\* authorize_and_cache_tokens up to the start of the polling loop: a fresh state,
\* the browser opened, the capture variables reset, the listener thread started
StartAuthorize(evs) ==
    /\ authn < MaxAuths
    /\ now + timeout_seconds <= MaxTime
    /\ authn' = authn + 1
    /\ state_expected' = authn + 1
    /\ code' = None
    /\ httpd' = "listening"
    /\ deadline' = now + timeout_seconds
    /\ sleeping' = FALSE
    /\ req' = NoReq
    /\ events' = Append(evs, "browser_open")
    /\ pc' = "wait"

\* ----------------------------------------------------------- get_valid_token
GvtConfigError ==
    /\ ~creds
    /\ events' = Append(events, "gvt")
    /\ GvtRaise("config_error")
    /\ UNCHANGED <<now, creds, tokens_file, srv_issued, op, code, state_expected,
                   httpd, deadline, sleeping, authn, req>>

GvtCached ==
    /\ creds
    /\ TokenStillValid(tokens_file, now)
    /\ events' = Append(events, "gvt")
    /\ GvtReturn(tokens_file.access_token)
    /\ UNCHANGED <<now, creds, tokens_file, srv_issued, op, code, state_expected,
                   httpd, deadline, sleeping, authn, req>>

GvtReauthorize ==
    /\ creds
    /\ ~TokenStillValid(tokens_file, now)
    /\ tokens_file.refresh_token = None
    /\ StartAuthorize(Append(events, "gvt"))
    /\ UNCHANGED <<now, creds, tokens_file, srv_issued, access_token, op, site, result>>

GvtRefreshOk(resp) ==
    /\ creds
    /\ ~TokenStillValid(tokens_file, now)
    /\ tokens_file.refresh_token # None
    /\ srv_issued < MaxTokens
    /\ events' = events \o <<"gvt", "refresh_post">>
    /\ srv_issued' = srv_issued + 1
    /\ tokens_file' = Bundle(resp, now)
    /\ GvtReturn(resp.access_token)
    /\ UNCHANGED <<now, creds, op, code, state_expected, httpd, deadline, sleeping, authn, req>>

GvtRefreshHttpError ==
    /\ creds
    /\ ~TokenStillValid(tokens_file, now)
    /\ tokens_file.refresh_token # None
    /\ events' = events \o <<"gvt", "refresh_post">>
    /\ GvtRaise("http_error")
    /\ UNCHANGED <<now, creds, tokens_file, srv_issued, op, code, state_expected,
                   httpd, deadline, sleeping, authn, req>>

GetValidToken ==
    /\ pc = "gvt"
    /\ \/ GvtConfigError
       \/ GvtCached
       \/ GvtReauthorize
       \/ \E resp \in TokenResponses(now) : GvtRefreshOk(resp)
       \/ GvtRefreshHttpError
    /\ UNCHANGED <<rejected, stale, bucket_vars, analysis_vars>>

\* ------------------------------------------------- the one-shot listener thread
\* query.get("state", [None])[0] and query.get("code", [None])[0] of the redirect
CallbackStates == {None, state_expected, ForgedState}
CallbackCodes == {None, authn}

\* _CallbackHandler.do_GET, lines 27-31: the request is answered 400
StateRejectedUnlessMissing(st) ==
    state_expected # None /\ st # None /\ st # state_expected

StateRejected(st) == state_expected # None /\ st # state_expected

\* the answer of do_GET and the value of _CallbackHandler.code after it
HandlerStatus(path, st) ==
    IF path = "/callback" THEN (IF StateRejected(st) THEN 400 ELSE 200) ELSE 404

\* httpd.handle_request serves exactly one request, whatever its path: do_GET up
\* to its state check (lines 21-31).  A request answered 400 or 404 ends the
\* thread; one that passes the check has the assignment of line 32 still to do
Callback(path, st, cd) ==
    /\ httpd = "listening"
    /\ httpd' = IF HandlerStatus(path, st) = 200 THEN "writing" ELSE "handled"
    /\ req' = [path |-> path, state |-> st, code |-> cd,
               status |-> HandlerStatus(path, st), late |-> ~(now < deadline)]
    /\ UNCHANGED <<now, creds, tokens_file, srv_issued, access_token, op, pc, site,
                   code, state_expected, deadline, sleeping, authn, events, result>>
    /\ UNCHANGED <<rejected, stale, bucket_vars, analysis_vars>>

\* line 32, _CallbackHandler.code = code, and the thread ends
CallbackWrite ==
    /\ httpd = "writing"
    /\ httpd' = "handled"
    /\ code' = req.code
    /\ UNCHANGED <<now, creds, tokens_file, srv_issued, access_token, op, pc, site,
                   state_expected, deadline, sleeping, authn, req, events, result>>
    /\ UNCHANGED <<rejected, stale, bucket_vars, analysis_vars>>

\* httpd.server_close() closes the listening socket, it does not stop a thread that
\* is inside do_GET: after get_valid_token's authorize that thread lives on in the
\* process; the process of cli auth exits, and its daemon thread with it
ThreadsAfterClose ==
    IF op = "auth" THEN {}
    ELSE IF httpd = "writing"
         THEN stale \cup {[inv |-> authn, state |-> req.state, code |-> req.code]}
    ELSE stale

\* line 32 in the thread of an ended invocation
StaleWrite ==
    /\ \E w \in stale :
        /\ code' = w.code
        /\ stale' = stale \ {w}
    /\ UNCHANGED <<now, creds, tokens_file, srv_issued, access_token, op, pc, site,
                   state_expected, httpd, deadline, sleeping, authn, req, events,
                   result>>
    /\ UNCHANGED <<rejected, bucket_vars, analysis_vars>>

\* --------------------------------- _start_server_until_code and what follows it
\* authorize_and_cache_tokens raises: cli.auth catches and prints the error,
\* get_valid_token (line 146) lets it propagate to its own caller
AuthorizeRaise(err) ==
    /\ UNCHANGED <<tokens_file, srv_issued>>
    /\ IF op = "auth"
       THEN /\ pc' = "idle"
            /\ result' = [kind |-> err, val |-> NoToken]
            /\ UNCHANGED <<access_token, site>>
       ELSE GvtRaise(err)

\* line 49, the loop test
LoopRunsAtDeadline(t, dl) == t <= dl

LoopRuns(t, dl) == t < dl

\* lines 49-56: before the deadline and with no code yet, the loop sleeps
PollSleep ==
    /\ pc = "wait"
    /\ ~sleeping
    /\ LoopRuns(now, deadline)
    /\ code = None
    /\ sleeping' = TRUE
    /\ UNCHANGED <<now, creds, tokens_file, srv_issued, access_token, op, pc, site,
                   code, state_expected, httpd, deadline, authn, req, events, result>>
    /\ UNCHANGED <<rejected, stale, bucket_vars, analysis_vars>>

\* the loop ends at the deadline without having seen a code: server_close, None,
\* "Authorization timed out"
PollTimeout ==
    /\ pc = "wait"
    /\ ~sleeping
    /\ ~LoopRuns(now, deadline)
    /\ httpd' = "closed"
    /\ stale' = ThreadsAfterClose
    /\ deadline' = 0
    /\ UNCHANGED sleeping
    /\ UNCHANGED events
    /\ AuthorizeRaise("timed_out")
    /\ UNCHANGED <<now, creds, op, code, state_expected, authn, req>>
    /\ UNCHANGED <<rejected, bucket_vars, analysis_vars>>

\* the loop sees a code before the deadline, closes the server and returns it; the
\* code is exchanged at the token endpoint, which answers with an error status
PollCodeExchangeHttpError ==
    /\ pc = "wait"
    /\ ~sleeping
    /\ LoopRuns(now, deadline)
    /\ code # None
    /\ httpd' = "closed"
    /\ stale' = ThreadsAfterClose
    /\ deadline' = 0
    /\ UNCHANGED sleeping
    /\ events' = Append(events, "code_post")
    /\ AuthorizeRaise("http_error")
    /\ UNCHANGED <<now, creds, op, code, state_expected, authn, req>>
    /\ UNCHANGED <<rejected, bucket_vars, analysis_vars>>

\* what authorize_and_cache_tokens writes under the provider key (lines 119-122)
AuthorizeStored(resp) == Bundle(resp, None)

\* ... or with a token bundle: lines 119-123, and for get_valid_token lines 147-151
PollCodeExchangeOk(resp) ==
    /\ pc = "wait"
    /\ ~sleeping
    /\ LoopRuns(now, deadline)
    /\ code # None
    /\ srv_issued < MaxTokens
    /\ httpd' = "closed"
    /\ stale' = ThreadsAfterClose
    /\ deadline' = 0
    /\ UNCHANGED sleeping
    /\ events' = Append(events, "code_post")
    /\ srv_issued' = srv_issued + 1
    /\ IF op = "auth"
       THEN /\ tokens_file' = AuthorizeStored(resp)
            /\ pc' = "idle"
            /\ result' = [kind |-> "tokens", val |-> resp.access_token]
            /\ UNCHANGED <<access_token, site>>
       ELSE /\ tokens_file' = Bundle(resp, now)
            /\ GvtReturn(resp.access_token)
    /\ UNCHANGED <<now, creds, op, code, state_expected, authn, req>>
    /\ UNCHANGED <<rejected, bucket_vars, analysis_vars>>

\* ------------------------------------------------------------------ cli auth
\* the command runs in a process of its own: no thread of an earlier invocation
CliAuth ==
    /\ pc = "idle"
    /\ op' = "auth"
    /\ stale' = {}
    /\ IF creds
       THEN /\ StartAuthorize(<<>>)
            /\ result' = NoResult
       ELSE /\ pc' = "idle"
            /\ result' = [kind |-> "config_error", val |-> NoToken]
            /\ events' = <<>>
            /\ req' = NoReq
            /\ UNCHANGED <<code, state_expected, httpd, deadline, sleeping, authn>>
    /\ UNCHANGED <<now, creds, tokens_file, srv_issued, access_token, site>>
    /\ UNCHANGED <<rejected, bucket_vars, analysis_vars>>

\* ------------------------------------------------------------ WHOOP API client
\* the access token's safety margin has elapsed: now >= issued_at + expires_in - 60
MarginElapsed(tok) == now >= tok[2] - SafetyMargin

\* how the WHOOP API can answer a GET that carries tok: 200 only while tok is
\* unexpired, 401 at any time (expired or revoked), 500, or no answer at all
ApiOutcomes(tok) ==
    {"401", "500", "exception"} \cup (IF now < tok[2] THEN {"200"} ELSE {})

\* get_valid_token() called directly
CallGetValidToken ==
    /\ pc = "idle"
    /\ op' = "gvt"
    /\ pc' = "gvt"
    /\ site' = "direct"
    /\ events' = <<>>
    /\ result' = NoResult
    /\ req' = NoReq
    /\ UNCHANGED <<now, creds, tokens_file, srv_issued, access_token, code,
                   state_expected, httpd, deadline, sleeping, authn>>
    /\ UNCHANGED <<rejected, stale, bucket_vars, analysis_vars>>

\* WhoopAPI.get_*: _refresh_token_if_needed begins, its _get_headers consults
\* get_valid_token only when the instance holds no access token (lines 19-20)
HeadersConsult(tok) == tok = NoToken

ApiCall ==
    /\ pc = "idle"
    /\ op' = "api"
    /\ events' = <<>>
    /\ result' = NoResult
    /\ IF HeadersConsult(access_token)
       THEN pc' = "gvt" /\ site' = "headers"
       ELSE pc' = "preflight" /\ site' = "none"
    /\ rejected' = NoToken
    /\ req' = NoReq
    /\ UNCHANGED <<now, creds, tokens_file, srv_issued, access_token, code,
                   state_expected, httpd, deadline, sleeping, authn>>
    /\ UNCHANGED <<stale, bucket_vars, analysis_vars>>

\* the pre-flight GET /v1/user/profile/basic (lines 31-39)
WherePreflightLeads(outcome) ==
    IF outcome = "401" THEN <<"gvt", "on401">>
    ELSE IF outcome = "exception" THEN <<"gvt", "except">>
    ELSE <<"request", "none">>

Preflight(outcome) ==
    /\ pc = "preflight"
    /\ outcome \in ApiOutcomes(access_token)
    /\ events' = Append(events, "preflight_get")
    /\ pc' = WherePreflightLeads(outcome)[1]
    /\ site' = WherePreflightLeads(outcome)[2]
    /\ rejected' = IF outcome = "401" THEN access_token ELSE rejected
    /\ UNCHANGED <<now, creds, tokens_file, srv_issued, access_token, op, code,
                   state_expected, httpd, deadline, sleeping, authn, req, result>>
    /\ UNCHANGED <<stale, bucket_vars, analysis_vars>>

\* the real request: requests.get(url, headers=self._get_headers(), ...) and
\* response.raise_for_status()
Request(outcome) ==
    /\ pc = "request"
    /\ outcome \in ApiOutcomes(access_token)
    /\ events' = Append(events, "api_get")
    /\ pc' = "idle"
    /\ result' = [kind |-> IF outcome = "200" THEN "data" ELSE "api_error",
                  val |-> access_token]
    /\ rejected' = NoToken
    /\ UNCHANGED <<now, creds, tokens_file, srv_issued, access_token, op, site, code,
                   state_expected, httpd, deadline, sleeping, authn, req>>
    /\ UNCHANGED <<stale, bucket_vars, analysis_vars>>

\* get_whoop_client(): a new WhoopAPI instance holds no access token
NewClient ==
    /\ pc = "idle"
    /\ access_token # NoToken
    /\ access_token' = NoToken
    /\ UNCHANGED <<now, creds, tokens_file, srv_issued, op, pc, site, code,
                   state_expected, httpd, deadline, sleeping, authn, req, events, result>>
    /\ UNCHANGED <<rejected, stale, bucket_vars, analysis_vars>>

\* the environment / .env that load_env and get_env read changes between operations
EditEnv ==
    /\ pc = "idle"
    /\ creds' = ~creds
    /\ UNCHANGED <<now, tokens_file, srv_issued, access_token, op, pc, site, code,
                   state_expected, httpd, deadline, sleeping, authn, req, events, result>>
    /\ UNCHANGED <<rejected, stale, bucket_vars, analysis_vars>>

\* time.time() advances; the polling loop wakes from its sleep
Tick ==
    /\ \E d \in ClockSteps : now + d <= MaxTime /\ now' = now + d
    /\ pc = "wait" => sleeping
    /\ sleeping' = FALSE
    /\ UNCHANGED <<creds, tokens_file, srv_issued, access_token, op, pc, site, code,
                   state_expected, httpd, deadline, authn, req, events, result>>
    /\ UNCHANGED <<rejected, stale, bucket_vars, analysis_vars>>

\* ------------------------------------------------------------------ analyzer
\* a timestamp after pd.to_datetime is <<calendar day, time of day>>; .dt.date
\* keeps the day
Days == {1, 2}
TimesOfDay == {0, 1}
Amounts == {10, 50}
RecordScores == {0, 40, 80}
DateOf(ts) == ts[1]
Midnight(day) == <<day, 0>>

TransactionRecords == [date : Days \X TimesOfDay, amount : Amounts]
WorkoutRecords == [date : Days \X TimesOfDay]
RecoveryRecords == [date : Days \X TimesOfDay, score : RecordScores]

SeqsUpTo(S, n) == UNION {[1..k -> S] : k \in 0..n}

RECURSIVE SumAmounts(_)
SumAmounts(rows) ==
    IF rows = <<>> THEN 0 ELSE Head(rows).amount + SumAmounts(Tail(rows))

RECURSIVE SumOver(_, _)
SumOver(S, f) ==
    IF S = {} THEN 0 ELSE LET x == CHOOSE y \in S : TRUE IN f[x] + SumOver(S \ {x}, f)

Abs(n) == IF n < 0 THEN -n ELSE n
RECURSIVE Gcd(_, _)
Gcd(a, b) == IF b = 0 THEN a ELSE Gcd(b, a % b)
\* the quotient n / d, d > 0, in lowest terms
Ratio(n, d) == LET g == Gcd(Abs(n), d) IN <<n \div g, d \div g>>
RatioMinus(p, q) == Ratio(p[1] * q[2] - q[1] * p[2], p[2] * q[2])

\* line 48 and line 108: DataFrame.empty of either frame
NoDataFirstOnly(first, second) == Len(first) = 0

NoData(first, second) == Len(first) = 0 \/ Len(second) = 0

\* pd.cut(score, bins=[0, 33, 66, 100], labels=["Low", "Medium", "High"]): the
\* intervals are (0, 33], (33, 66], (66, 100], anything else is NaN
Cut(s) ==
    IF 0 < s /\ s <= 33 THEN "Low"
    ELSE IF 33 < s /\ s <= 66 THEN "Medium"
    ELSE IF 66 < s /\ s <= MaxScore THEN "High"
    ELSE "NaN"

\* generate_health_finance_report, lines 175-185: a falsy score is left out
ScoreDistributionBand(s) ==
    IF s = 0 THEN "left out"
    ELSE IF s <= 33 THEN "low"
    ELSE IF s <= 66 THEN "medium"
    ELSE "high"

\* daily_spending, line 58: per calendar day of a transaction, the sum of amounts
TransactionDays(txs) == {DateOf(txs[i].date) : i \in DOMAIN txs}
DailyTotal(txs, day) == SumAmounts(SelectSeq(txs, LAMBDA t : DateOf(t.date) = day))

\* lines 62-70: the outer merge on the timestamp and Series.corr over its rows that
\* hold both values
Pairs(recovery, txs) ==
    {i \in DOMAIN recovery :
        \E day \in TransactionDays(txs) : recovery[i].date = Midnight(day)}
UnmatchedDays(recovery, txs) ==
    {day \in TransactionDays(txs) :
        \A i \in DOMAIN recovery : recovery[i].date # Midnight(day)}
Sign(n) == IF n < 0 THEN -1 ELSE IF n > 0 THEN 1 ELSE 0
Correlation(recovery, txs) ==
    LET P == Pairs(recovery, txs)
        n == Cardinality(P)
        x == [i \in P |-> recovery[i].score]
        y == [i \in P |-> DailyTotal(txs, DateOf(recovery[i].date))]
        sx == SumOver(P, x)
        sy == SumOver(P, y)
        sxy == SumOver(P, [i \in P |-> x[i] * y[i]])
        sxx == SumOver(P, [i \in P |-> x[i] * x[i]])
        syy == SumOver(P, [i \in P |-> y[i] * y[i]])
    IN  IF n < 2 \/ n * sxx - sx * sx = 0 \/ n * syy - sy * sy = 0
        THEN [defined |-> FALSE, sign |-> 0, pairs |-> n]
        ELSE [defined |-> TRUE, sign |-> Sign(n * sxy - sx * sy), pairs |-> n]

\* lines 79-90: per band that holds a recovery record, the transactions whose
\* timestamp is one of the band's timestamps
CategoryDates(recovery, cat) ==
    {recovery[i].date : i \in {j \in DOMAIN recovery : Cut(recovery[j].score) = cat}}
CategoryTransactions(recovery, txs, cat) ==
    SelectSeq(txs, LAMBDA t : t.date \in CategoryDates(recovery, cat))
Mean(rows) == IF Len(rows) = 0 THEN {} ELSE {Ratio(SumAmounts(rows), Len(rows))}
SpendingByRecovery(recovery, txs) ==
    [cat \in {c \in {"Low", "Medium", "High"} : CategoryDates(recovery, c) # {}} |->
        [total_spending |-> SumAmounts(CategoryTransactions(recovery, txs, cat)),
         avg_daily_spending |-> Mean(CategoryTransactions(recovery, txs, cat)),
         transaction_count |-> Len(CategoryTransactions(recovery, txs, cat))]]

\* analyze_spending_vs_recovery, lines 45-97; without the guard of line 48 an
\* empty frame has no "date" column and line 58 or 63 raises KeyError
SpendingVsRecovery(recovery, txs) ==
    IF NoData(recovery, txs) THEN [kind |-> "no data"]
    ELSE IF Len(recovery) = 0 \/ Len(txs) = 0 THEN [kind |-> "raises"]
    ELSE [kind |-> "spending_vs_recovery",
          correlation |-> Correlation(recovery, txs),
          spending_by_recovery |-> SpendingByRecovery(recovery, txs),
          data_points |-> Len(recovery) + Cardinality(UnmatchedDays(recovery, txs))]

\* lines 118-130: the daily totals of the workout days and of the other days
WorkoutDates(workouts) == {DateOf(workouts[i].date) : i \in DOMAIN workouts}
IsWorkoutDayAlways(workouts, day) == TRUE

IsWorkoutDay(workouts, day) == day \in WorkoutDates(workouts)

\* lines 132-142: count, average and total of a list of daily totals
AvgSpending(total, count) == IF count = 0 THEN <<0, 1>> ELSE Ratio(total, count)

DayStats(txs, days) ==
    [count |-> Cardinality(days),
     avg_spending |-> AvgSpending(SumOver(days, [d \in days |-> DailyTotal(txs, d)]),
                                  Cardinality(days)),
     total_spending |-> SumOver(days, [d \in days |-> DailyTotal(txs, d)])]

\* analyze_workout_impact_on_spending, lines 105-153
WorkoutImpact(workouts, txs) ==
    IF NoData(workouts, txs) THEN [kind |-> "no data"]
    ELSE IF Len(workouts) = 0 \/ Len(txs) = 0 THEN [kind |-> "raises"]
    ELSE LET on == {d \in TransactionDays(txs) : IsWorkoutDay(workouts, d)}
             off == {d \in TransactionDays(txs) : ~IsWorkoutDay(workouts, d)}
         IN  [kind |-> "workout_impact",
              workout_days |-> DayStats(txs, on),
              non_workout_days |-> DayStats(txs, off),
              spending_difference |->
                  IF on # {} /\ off # {}
                  THEN {RatioMinus(DayStats(txs, on).avg_spending,
                                   DayStats(txs, off).avg_spending)}
                  ELSE {}]

\* the analyzer fetches the collections of the date range and analyses them (one
\* analysis per run: the functions keep no state between calls)
AnalyzeSpendingVsRecovery ==
    /\ analysis.kind = "none"
    /\ \E recovery \in SeqsUpTo(RecoveryRecords, MaxRecords),
          txs \in SeqsUpTo(TransactionRecords, MaxRecords) :
            /\ whoop_recovery' = recovery
            /\ transactions' = txs
            /\ analysis' = SpendingVsRecovery(recovery, txs)
    /\ analyzed' = "spending_vs_recovery"
    /\ whoop_workouts' = <<>>
    /\ UNCHANGED <<oauth_vars, bucket_vars>>

AnalyzeWorkoutImpactOnSpending ==
    /\ analysis.kind = "none"
    /\ \E workouts \in SeqsUpTo(WorkoutRecords, MaxRecords),
          txs \in SeqsUpTo(TransactionRecords, MaxRecords) :
            /\ whoop_workouts' = workouts
            /\ transactions' = txs
            /\ analysis' = WorkoutImpact(workouts, txs)
    /\ analyzed' = "workout_impact"
    /\ whoop_recovery' = <<>>
    /\ UNCHANGED <<oauth_vars, bucket_vars>>

\* the band of one recovery score
CutScore ==
    /\ \E s \in 0..MaxScore :
        /\ score' = s
        /\ category' = [by |-> "cut", band |-> Cut(s)]
    /\ UNCHANGED <<oauth_vars, analysis_vars>>

ScoreDistribution ==
    /\ \E s \in 0..MaxScore :
        /\ score' = s
        /\ category' = [by |-> "score_distribution", band |-> ScoreDistributionBand(s)]
    /\ UNCHANGED <<oauth_vars, analysis_vars>>

\* ------------------------------------------------------------ specification
InitOAuth ==
    /\ now = 60
    /\ creds \in BOOLEAN
    /\ tokens_file = NoTokens
    /\ srv_issued = 0
    /\ access_token = NoToken
    /\ rejected = NoToken
    /\ op = "none"
    /\ pc = "idle"
    /\ site = "none"
    /\ code = None
    /\ state_expected = None
    /\ httpd = "none"
    /\ stale = {}
    /\ deadline = 0
    /\ sleeping = FALSE
    /\ authn = 0
    /\ req = NoReq
    /\ events = <<>>
    /\ result = NoResult

InitAnalyzer ==
    /\ score = 0
    /\ category = [by |-> "none", band |-> "unset"]
    /\ whoop_workouts = <<>>
    /\ whoop_recovery = <<>>
    /\ transactions = <<>>
    /\ analyzed = "none"
    /\ analysis = [kind |-> "none"]

Init == InitOAuth /\ InitAnalyzer

Next ==
    \/ CallGetValidToken
    \/ GetValidToken
    \/ CliAuth
    \/ \E path \in {"/callback", "/favicon.ico"}, st \in CallbackStates,
          cd \in CallbackCodes : Callback(path, st, cd)
    \/ CallbackWrite
    \/ StaleWrite
    \/ PollSleep
    \/ PollTimeout
    \/ PollCodeExchangeHttpError
    \/ \E resp \in TokenResponses(now) : PollCodeExchangeOk(resp)
    \/ ApiCall
    \/ \E outcome \in {"200", "401", "500", "exception"} : Preflight(outcome)
    \/ \E outcome \in {"200", "401", "500", "exception"} : Request(outcome)
    \/ NewClient
    \/ EditEnv
    \/ Tick

Spec == Init /\ [][Next]_vars

\* cli auth alone, with the scheduling the code relies on: the clock advances and
\* the main thread runs its polling loop
NextAuthorize ==
    \/ CliAuth
    \/ \E path \in {"/callback", "/favicon.ico"}, st \in CallbackStates,
          cd \in CallbackCodes : Callback(path, st, cd)
    \/ CallbackWrite
    \/ PollSleep
    \/ PollTimeout
    \/ PollCodeExchangeHttpError
    \/ \E resp \in TokenResponses(now) : PollCodeExchangeOk(resp)
    \/ EditEnv
    \/ Tick
PollExchange ==
    PollCodeExchangeHttpError \/ \E resp \in TokenResponses(now) : PollCodeExchangeOk(resp)
FairSpecAuthorize ==
    /\ Init
    /\ [][NextAuthorize]_vars
    /\ WF_vars(Tick)
    /\ WF_vars(PollSleep)
    /\ WF_vars(PollTimeout)
    /\ WF_vars(PollExchange)

NextBucket == CutScore \/ ScoreDistribution
SpecBucket == Init /\ [][NextBucket]_vars

NextAnalyzer == AnalyzeSpendingVsRecovery \/ AnalyzeWorkoutImpactOnSpending
SpecAnalyzer == Init /\ [][NextAnalyzer]_vars

\* ===================================================================== claims
\* what the claims say of one get_valid_token invocation
GvtStep == pc = "gvt" /\ events' # events
GvtReturned(tok) ==
    IF site = "direct"
    THEN pc' = "idle" /\ result' = [kind |-> "token", val |-> tok]
    ELSE pc' \in {"preflight", "request"} /\ access_token' = tok
GvtRaised ==
    IF site \in {"headers", "on401"}
    THEN pc' = "gvt" /\ site' = "except"
    ELSE pc' = "idle" /\ result'.kind \in {"http_error", "config_error"}
StoredMarginNotElapsed ==
    /\ tokens_file.access_token # NoToken
    /\ tokens_file.issued_at # None
    /\ tokens_file.expires_in # None
    /\ now < tokens_file.issued_at + tokens_file.expires_in - 60
\* a record without issued_at counts as expired
StoredMarginElapsed ==
    \/ tokens_file.issued_at = None
    \/ tokens_file.expires_in = None
    \/ now >= tokens_file.issued_at + tokens_file.expires_in - 60
ReusesCachedToken ==
    /\ GvtReturned(tokens_file.access_token)
    /\ events' = Append(events, "gvt")
    /\ tokens_file' = tokens_file

\* C1 as stated: whenever the stored record holds an access token and
\* now < issued_at + expires_in - 60, get_valid_token returns the cached access
\* token, makes no network call and leaves the token store as it is.
C1_Original ==
    [][(GvtStep /\ StoredMarginNotElapsed) => ReusesCachedToken]_vars

\* C1 amended: the same, for an invocation that finds WHOOP_CLIENT_ID and
\* WHOOP_CLIENT_SECRET set (without them get_valid_token raises before it reads
\* the token store).
C1_CachedTokenReused ==
    [][(GvtStep /\ creds /\ StoredMarginNotElapsed) => ReusesCachedToken]_vars

C1_Witness ==
    /\ op = "gvt" /\ pc = "idle" /\ creds
    /\ StoredMarginNotElapsed
    /\ events = <<"gvt">>
    /\ result = [kind |-> "token", val |-> tokens_file.access_token]

RefreshesOnce ==
    /\ events' = events \o <<"gvt", "refresh_post">>
    /\ \/ GvtRaised
       \/ \E resp \in TokenResponses(now) :
            /\ tokens_file' = Bundle(resp, tokens_file'.issued_at)
            /\ tokens_file'.issued_at >= tokens_file.issued_at
            /\ tokens_file'.issued_at # None
            /\ GvtReturned(resp.access_token)

\* C2 as stated: whenever the stored record's safety margin has elapsed and it
\* holds a refresh token, one get_valid_token invocation issues exactly one
\* refresh POST and, on success, overwrites the record with the new bundle, whose
\* issued_at is at least the old one, and returns the new access token.
C2_Original ==
    [][(GvtStep /\ StoredMarginElapsed /\ tokens_file.refresh_token # None)
        => RefreshesOnce]_vars

\* C2 amended: the same, for an invocation that finds WHOOP_CLIENT_ID and
\* WHOOP_CLIENT_SECRET set (without them no refresh POST is issued).
C2_ExactlyOneRefresh ==
    [][(GvtStep /\ creds /\ StoredMarginElapsed /\ tokens_file.refresh_token # None)
        => RefreshesOnce]_vars

C2_Witness ==
    /\ op = "gvt" /\ pc = "idle" /\ creds
    /\ events = <<"gvt", "refresh_post">>
    /\ result = [kind |-> "token", val |-> tokens_file.access_token]
    /\ tokens_file.issued_at = now

\* C3: a /callback request whose state is missing or differs from the state of
\* the authorize invocation whose listener receives it is answered 400 and never
\* gets to set the captured code; the captured code only ever becomes a code that
\* a listener received together with the state of its own invocation.
C3_StateChecked ==
    [][/\ (httpd = "listening" /\ httpd' # "listening" /\ req'.path = "/callback"
              /\ req'.state # state_expected)
           => (req'.status = 400 /\ code' = code /\ httpd' = "handled")
       /\ (code' # code /\ code' # None)
           => \/ /\ httpd = "writing"
                 /\ req.status = 200 /\ req.path = "/callback"
                 /\ req.state = state_expected /\ req.code = code'
              \/ \E w \in stale :
                    w \notin stale' /\ w.code = code' /\ w.state = w.inv]_vars

C3_Witness ==
    /\ pc = "wait" /\ httpd = "handled"
    /\ req.path = "/callback" /\ req.state = None /\ req.code # None
    /\ req.status = 400 /\ code = None

\* C4: every score in [0, 100] is put in exactly one band: 0..33 in Low, 34..66
\* in Medium, 67..100 in High.
ClaimedBand(s) == IF s <= 33 THEN "Low" ELSE IF s <= 66 THEN "Medium" ELSE "High"
C4_BucketingTotal ==
    category.by = "cut" => category.band = ClaimedBand(score)

\* C5: with workouts and transactions, every distinct transaction date is counted
\* in exactly one partition (workout_days iff a workout record has that date), the
\* counts add up to the number of distinct transaction dates and the totals to the
\* sum of all amounts, an empty partition has avg_spending 0, and
\* spending_difference (workout average minus non-workout average) is present
\* exactly when both partitions are non-empty.
TxDays == {transactions[i].date[1] : i \in DOMAIN transactions}
WorkoutDays == {d \in TxDays : \E j \in DOMAIN whoop_workouts : whoop_workouts[j].date[1] = d}
TotalOn(D) == SumAmounts(SelectSeq(transactions, LAMBDA t : t.date[1] \in D))
StatsAre(stats, D) ==
    /\ stats.count = Cardinality(D)
    /\ stats.total_spending = TotalOn(D)
    /\ IF D = {} THEN stats.avg_spending = <<0, 1>>
       ELSE /\ stats.avg_spending[2] > 0
            /\ stats.avg_spending[1] * Cardinality(D) = TotalOn(D) * stats.avg_spending[2]
C5_WorkoutSplit ==
    (analyzed = "workout_impact" /\ whoop_workouts # <<>> /\ transactions # <<>>) =>
        /\ analysis.kind = "workout_impact"
        /\ StatsAre(analysis.workout_days, WorkoutDays)
        /\ StatsAre(analysis.non_workout_days, TxDays \ WorkoutDays)
        /\ analysis.workout_days.count + analysis.non_workout_days.count
             = Cardinality(TxDays)
        /\ analysis.workout_days.total_spending + analysis.non_workout_days.total_spending
             = SumAmounts(transactions)
        /\ (analysis.spending_difference # {})
             <=> (WorkoutDays # {} /\ TxDays \ WorkoutDays # {})
        /\ \A diff \in analysis.spending_difference :
             LET w == analysis.workout_days.avg_spending
                 n == analysis.non_workout_days.avg_spending
             IN  /\ diff[2] > 0
                 /\ diff[1] * w[2] * n[2] = (w[1] * n[2] - n[1] * w[2]) * diff[2]

C5_Witness ==
    /\ analyzed = "workout_impact" /\ analysis.kind = "workout_impact"
    /\ analysis.workout_days.count = 1
    /\ analysis.non_workout_days.count = 1
    /\ analysis.spending_difference = {<<-40, 1>>}

\* C6: when a required series is empty (recovery or transactions for
\* analyze_spending_vs_recovery, workouts or transactions for
\* analyze_workout_impact_on_spending) the function returns the no-data result
\* and does not raise.
C6_EmptyInputNoData ==
    /\ (analyzed = "spending_vs_recovery"
          /\ (whoop_recovery = <<>> \/ transactions = <<>>))
         => analysis.kind = "no data"
    /\ (analyzed = "workout_impact"
          /\ (whoop_workouts = <<>> \/ transactions = <<>>))
         => analysis.kind = "no data"

C6_Witness ==
    /\ analyzed = "spending_vs_recovery"
    /\ whoop_recovery # <<>> /\ transactions = <<>>
    /\ analysis.kind = "no data"

\* C7: after a successful authorize the record stored under the provider key is
\* the returned bundle with an issued_at timestamp (so that the next
\* get_valid_token reuses the access token).
C7_AuthorizeStoresIssuedAt ==
    (op = "auth" /\ pc = "idle" /\ result.kind = "tokens") =>
        /\ tokens_file.access_token = result.val
        /\ tokens_file.issued_at # None

\* C8: when the callback arrives with a state that does not match, authorize
\* fails with the "state mismatch" error, not with the timeout error, and no token
\* exchange is attempted.
C8_StateMismatchReported ==
    (op = "auth" /\ pc = "idle" /\ httpd = "closed" /\ req.status = 400
        /\ req.state = ForgedState) =>
        /\ result.kind = "state_mismatch"
        /\ \A i \in DOMAIN events : events[i] # "code_post"

\* what the claims say of the step that ends the polling loop
LoopEnds == pc = "wait" /\ pc' # "wait"
EndsTimedOut ==
    /\ result'.kind = "timed_out"
    /\ httpd' = "closed"
    /\ events' = events
    /\ tokens_file' = tokens_file
EndsInExchange ==
    /\ code # None
    /\ httpd' = "closed"
    /\ events' = Append(events, "code_post")
Terminates == (pc = "wait") ~> (pc # "wait")

\* C9 as stated: every authorize invocation terminates; if no code was captured
\* before the timeout it ends with the timeout error, the listener closed, no
\* token-endpoint POST and the token store unchanged; otherwise it goes on to the
\* code exchange.
C9_Original ==
    /\ Terminates
    /\ [][LoopEnds => IF code = None \/ req.late THEN EndsTimedOut
                      ELSE EndsInExchange]_vars

\* C9 amended: every authorize invocation that finds the client credentials set
\* terminates; it ends with the timeout error (listener closed, no token-endpoint
\* POST, token store unchanged) when the polling loop has seen no code by the
\* deadline, which includes a code captured during the loop's last sleep; when the
\* loop sees a code before the deadline it goes on to the code exchange.
C9_TerminatesByPolling ==
    /\ Terminates
    /\ [][LoopEnds => IF now >= deadline THEN EndsTimedOut ELSE EndsInExchange]_vars

C9_Witness ==
    /\ op = "auth" /\ pc = "idle" /\ result.kind = "timed_out"
    /\ httpd = "closed"
    /\ code # None /\ ~req.late
    /\ events = <<"browser_open">>

\* C10: no request of a WhoopAPI call is sent with an access token whose safety
\* margin has elapsed unless get_valid_token was consulted during that call.
C10_ExpiryCheckedPerCall ==
    [][(pc = "request" /\ pc' = "idle" /\ MarginElapsed(access_token))
        => \E i \in DOMAIN events : events[i] = "gvt"]_vars

\* C11: whenever the pre-flight profile request of a WhoopAPI call is answered 401,
\* a token refresh (a refresh POST or a re-authorization) happens between the
\* pre-flight and the real request, and the real request does not carry the access
\* token the pre-flight saw rejected.
RefreshAfterPreflight ==
    \E i, j \in DOMAIN events :
        /\ i < j
        /\ events[i] = "preflight_get"
        /\ events[j] \in {"refresh_post", "browser_open"}
C11_RefreshBeforeRequest ==
    [][(pc = "request" /\ pc' = "idle" /\ rejected # NoToken)
        => (RefreshAfterPreflight /\ access_token # rejected)]_vars

\* C12: when get_valid_token fails during a WhoopAPI call (missing credentials,
\* authorization timeout or token-endpoint failure), the call ends there with that
\* error: get_valid_token is not entered again, so no second refresh POST or
\* interactive authorization is attempted within the call.
GvtInvocationEnds ==
    /\ op = "api"
    /\ pc \in {"gvt", "wait"}
    /\ pc' # "wait"
    /\ (pc' # pc \/ site' # site)
C12_FailureAbortsCall ==
    [][(GvtInvocationEnds /\ pc' \notin {"preflight", "request"})
        => (pc' = "idle"
              /\ result'.kind \in {"config_error", "timed_out", "http_error"})]_vars

\* C13: when the token endpoint answers the code exchange or the refresh POST with
\* an HTTP failure (it issues no token), the error is raised to the caller, no
\* access token is returned and the token store keeps the record it had.
TokenEndpointPosted ==
    /\ Len(events') > Len(events)
    /\ events'[Len(events')] \in {"refresh_post", "code_post"}
HttpErrorSurfaces ==
    IF site \in {"headers", "on401"}
    THEN pc' = "gvt" /\ site' = "except"
    ELSE pc' = "idle" /\ result' = [kind |-> "http_error", val |-> NoToken]
C13_HttpFailureSurfaces ==
    [][(TokenEndpointPosted /\ srv_issued' = srv_issued)
        => (HttpErrorSurfaces /\ tokens_file' = tokens_file
              /\ access_token' = access_token)]_vars

C13_Witness ==
    /\ op = "gvt" /\ pc = "idle"
    /\ result = [kind |-> "http_error", val |-> NoToken]
    /\ events = <<"gvt", "refresh_post">>
    /\ tokens_file.access_token # NoToken /\ tokens_file.refresh_token # None

\* C14: for each band of the result, total_spending is the sum of the amounts of
\* all transactions whose calendar date (time of day discarded) is the date of a
\* recovery record of that band, and transaction_count is their number.  (A score
\* of 0 is left aside here: it is the subject of C4.)
BandDays(cat) ==
    {whoop_recovery[i].date[1] :
        i \in {j \in DOMAIN whoop_recovery :
                  whoop_recovery[j].score > 0
                    /\ ClaimedBand(whoop_recovery[j].score) = cat}}
BandRows(cat) == SelectSeq(transactions, LAMBDA t : t.date[1] \in BandDays(cat))
C14_BandTotalsByCalendarDate ==
    (analyzed = "spending_vs_recovery" /\ analysis.kind = "spending_vs_recovery") =>
        \A cat \in DOMAIN analysis.spending_by_recovery :
            /\ analysis.spending_by_recovery[cat].total_spending
                 = SumAmounts(BandRows(cat))
            /\ analysis.spending_by_recovery[cat].transaction_count
                 = Len(BandRows(cat))

\* C15: the correlation is computed over the recovery records whose calendar date
\* (time of day discarded) also has a daily spending total, and over nothing else;
\* it is undefined when there are fewer than 2 such pairs or when the paired
\* scores, or the paired totals, are all equal, and defined otherwise; for two
\* pairs where the higher score has the lower spending it is strictly negative.
CompletePairs ==
    {i \in DOMAIN whoop_recovery :
        \E k \in DOMAIN transactions :
            transactions[k].date[1] = whoop_recovery[i].date[1]}
PairedScore(i) == whoop_recovery[i].score
PairedTotal(i) == TotalOn({whoop_recovery[i].date[1]})
C15_CorrelationOverCompletePairs ==
    (analyzed = "spending_vs_recovery" /\ analysis.kind = "spending_vs_recovery") =>
        /\ analysis.correlation.pairs = Cardinality(CompletePairs)
        /\ analysis.correlation.defined
             <=> /\ Cardinality(CompletePairs) >= 2
                 /\ \E i, j \in CompletePairs : PairedScore(i) # PairedScore(j)
                 /\ \E i, j \in CompletePairs : PairedTotal(i) # PairedTotal(j)
        /\ \A i, j \in CompletePairs :
             (CompletePairs = {i, j} /\ PairedScore(i) > PairedScore(j)
                 /\ PairedTotal(i) < PairedTotal(j))
               => (analysis.correlation.defined /\ analysis.correlation.sign = -1)

\* C16: a request to a path other than /callback is answered 404, leaves the
\* captured code as it is and does not end the listener (which goes on waiting
\* for its one /callback request).
C16_OtherPathsKeepListening ==
    [][(httpd = "listening" /\ req' # req /\ req'.path # "/callback")
        => (req'.status = 404 /\ code' = code /\ httpd' = "listening")]_vars

\* C17: while an authorize invocation polls, the captured code is written by the
\* one-request listener thread of that invocation only (hence at most once after
\* the reset), and the code the polling loop returns is the code that thread
\* received with the invocation's state.
CodeWritten ==
    \/ httpd = "writing" /\ httpd' = "handled"
    \/ \E w \in stale : w \notin stale'
C17_SingleWritePerInvocation ==
    [][/\ (pc = "wait" /\ CodeWritten)
           => (httpd = "writing" /\ stale' = stale /\ code' = req.code)
       /\ (pc = "wait" /\ events' = Append(events, "code_post"))
           => (httpd = "handled" /\ req.status = 200
                 /\ req.state = state_expected /\ req.code = code)]_vars

\* C18: a successful refresh of a record that holds a refresh token leaves a
\* record that holds a refresh token, also when the token endpoint's answer has
\* none (so that the next expiry is handled by a refresh POST again, not by an
\* interactive authorization).
RefreshSucceeds ==
    /\ events' = events \o <<"gvt", "refresh_post">>
    /\ srv_issued' = srv_issued + 1
C18_RefreshTokenKept ==
    [][(RefreshSucceeds /\ tokens_file.refresh_token # None)
        => tokens_file'.refresh_token # None]_vars

====
